---- MODULE Spec2Model ----
(***************************************************************************)
(* Model of scripts/extract-clang-format-translations.py: a one-pass       *)
(* script that reads one TypeScript file, extracts (key, name,             *)
(* description) triples with one regular expression, prints a listing and  *)
(* an empty translation template as JSON.                                  *)
(*                                                                         *)
(* Text is modelled as a sequence of one-character strings.  A file on     *)
(* disk is a sequence of bytes; the only multi-byte character used is      *)
(* CJK (3 bytes in UTF-8).                                                 *)
(***************************************************************************)
EXTENDS Integers, Sequences, FiniteSets, TLC

\* ------------------------------------------------------------------------
\* Bounds of the model
\* ------------------------------------------------------------------------
MaxRecords == 3
\* records per file in the runs checked for termination
MaxRecordsLive == 2

\* ------------------------------------------------------------------------
\* Characters, bytes and the UTF-8 codec (open(..., encoding='utf-8'))
\* ------------------------------------------------------------------------
Quote == "'"
DQuote == "\""
CJK == "U+540D"
InvalidByte == "0xFF"
CJKBytes == <<"0xE5", "0x90", "0x8D">>
HighBytes == {"0xE5", "0x90", "0x8D", "0xFF"}

RECURSIVE Utf8Encode(_)
Utf8Encode(text) ==
    IF text = <<>> THEN <<>>
    ELSE (IF Head(text) = CJK THEN CJKBytes ELSE <<Head(text)>>)
         \o Utf8Encode(Tail(text))


\* The strict decoder: a byte sequence decodes iff every byte above 0x7F
\* sits in a complete three-byte sequence.
Utf8Decodable(bytes) ==
    \A x \in 1..Len(bytes) :
        CASE bytes[x] = CJKBytes[1] ->
                x + 2 <= Len(bytes) /\ SubSeq(bytes, x, x + 2) = CJKBytes
          [] bytes[x] = CJKBytes[2] ->
                x > 1 /\ bytes[x - 1] = CJKBytes[1]
          [] bytes[x] = CJKBytes[3] ->
                x > 2 /\ bytes[x - 1] = CJKBytes[2]
          [] OTHER -> bytes[x] \notin HighBytes

\* Decoding maps a lead byte to its character and drops its continuation
\* bytes.
NotContinuation(c) == c \notin {CJKBytes[2], CJKBytes[3]}

Utf8Decode(bytes) ==
    SelectSeq([x \in 1..Len(bytes) |->
                  IF bytes[x] = CJKBytes[1] THEN CJK ELSE bytes[x]],
              NotContinuation)

\* ------------------------------------------------------------------------
\* The file system and open()
\* ------------------------------------------------------------------------
InputPath == "src/visual-editor/clang-format/data/clang-format-options-database.ts"

OpenModeWrite == "w"

OpenMode == "r"

\* open(..., errors='ignore'): undecodable bytes are not an error.
OpenErrorLenient(files, path, mode) ==
    IF mode = "r"
    THEN IF path \notin DOMAIN files THEN "FileNotFoundError"
         ELSE IF ~files[path].readable THEN "PermissionError"
         ELSE "ok"
    ELSE "UnsupportedOperation"

\* Error raised by open(path, mode) followed by f.read(), or "ok".
OpenError(files, path, mode) ==
    IF mode = "r"
    THEN IF path \notin DOMAIN files THEN "FileNotFoundError"
         ELSE IF ~files[path].readable THEN "PermissionError"
         ELSE IF ~Utf8Decodable(files[path].bytes) THEN "UnicodeDecodeError"
         ELSE "ok"
    ELSE "UnsupportedOperation"

\* The file system after open(path, mode): only a writing mode creates or
\* truncates the file.
FsAfterOpen(files, path, mode) ==
    IF mode = "r" THEN files
    ELSE [p \in (DOMAIN files) \cup {path} |->
            IF p = path THEN [readable |-> TRUE, bytes |-> <<>>]
            ELSE files[p]]

\* ------------------------------------------------------------------------
\* The extraction pattern
\*   \{\s*key:\s*'([^']+)',\s*name:\s*'([^']+)',\s*description:\s*'([^']+)',
\* as a sequence of elements: a literal character, \s* or ([^']+).
\* ------------------------------------------------------------------------
Whitespace == {" ", "\n", "\t"}

Lit(str) == [t |-> "lit", s |-> str, min |-> 0, cap |-> FALSE]
Ws == [t |-> "ws", s |-> <<>>, min |-> 0, cap |-> FALSE]
Group == [t |-> "notquote", s |-> <<>>, min |-> 1, cap |-> TRUE]

KeyLit == <<"k", "e", "y", ":">>
NameLit == <<"n", "a", "m", "e", ":">>
DescLit == <<"d", "e", "s", "c", "r", "i", "p", "t", "i", "o", "n", ":">>

QuotedField == <<Lit(<<Quote>>), Group, Lit(<<Quote, ",">>)>>

PatternNoFinalDelimiter ==
    <<Lit(<<"{">>), Ws, Lit(KeyLit), Ws>> \o QuotedField
    \o <<Ws, Lit(NameLit), Ws>> \o QuotedField
    \o <<Ws, Lit(DescLit), Ws, Lit(<<Quote>>), Group>>

pattern ==
    <<Lit(<<"{">>), Ws, Lit(KeyLit), Ws>> \o QuotedField
    \o <<Ws, Lit(NameLit), Ws>> \o QuotedField
    \o <<Ws, Lit(DescLit), Ws>> \o QuotedField

InClass(e, c) ==
    CASE e.t = "ws" -> c \in Whitespace
      [] e.t = "notquote" -> c # Quote
      [] OTHER -> FALSE

Min(S) == CHOOSE x \in S : \A y \in S : x <= y

\* F(v), with v evaluated once.
Bind(v, F(_)) == CHOOSE res \in { F(x) : x \in {v} } : TRUE

\* Length of the longest run of characters of class e starting at s[i].
Run(s, i, e) ==
    Bind({ j \in i..Len(s) : ~InClass(e, s[j]) },
         LAMBDA stops : (IF stops = {} THEN Len(s) + 1 ELSE Min(stops)) - i)

LitAt(s, i, str) ==
    /\ i + Len(str) - 1 <= Len(s)
    /\ \A x \in 1..Len(str) : s[i + x - 1] = str[x]

NoMatch == [ok |-> FALSE, end |-> 0, caps |-> <<>>]

\* Backtracking matcher: MatchFrom matches pattern[k..] at s[i..] with the
\* groups captured so far in caps; Greedy tries a repetition of n
\* characters, then n-1, ... down to the element's minimum.
RECURSIVE MatchFrom(_, _, _, _)
RECURSIVE Greedy(_, _, _, _, _)
MatchFrom(s, i, k, caps) ==
    IF k > Len(pattern) THEN [ok |-> TRUE, end |-> i, caps |-> caps]
    ELSE IF pattern[k].t = "lit"
         THEN IF LitAt(s, i, pattern[k].s)
              THEN Bind(i + Len(pattern[k].s),
                        LAMBDA j : MatchFrom(s, j, k + 1, caps))
              ELSE NoMatch
         ELSE Bind(Run(s, i, pattern[k]),
                   LAMBDA n : Greedy(s, i, k, caps, n))

Greedy(s, i, k, caps, n) ==
    IF n < pattern[k].min THEN NoMatch
    ELSE Bind(MatchFrom(s, i + n, k + 1,
                        IF pattern[k].cap
                        THEN Append(caps, SubSeq(s, i, i + n - 1))
                        ELSE caps),
              LAMBDA r : IF r.ok THEN r
                         ELSE Bind(n - 1,
                                   LAMBDA m : Greedy(s, i, k, caps, m)))

\* re.findall: leftmost non-overlapping matches, scanning left to right;
\* each result is the tuple of the three captured groups.  The next match
\* is the one at the smallest start position >= pos where the pattern
\* matches; the scan resumes at its end.
RECURSIVE FindAllFrom(_, _)
FindAllFrom(s, pos) ==
    Bind({ p \in pos..Len(s) : MatchFrom(s, p, 1, <<>>).ok },
         LAMBDA starts :
            IF starts = {} THEN <<>>
            ELSE Bind(MatchFrom(s, Min(starts), 1, <<>>),
                      LAMBDA r : <<r.caps>> \o FindAllFrom(s, r.end)))

FindAll(s) == FindAllFrom(s, 1)

\* ------------------------------------------------------------------------
\* Input files: a file is the concatenation of the texts of its records.
\* A record has three fields, a quoting style and a layout.
\* ------------------------------------------------------------------------
Rec(key, name, desc, q, layout) ==
    [key |-> key, name |-> name, desc |-> desc, q |-> q, layout |-> layout]

Records ==
    { Rec(<<"A">>, <<"n">>, <<"d">>, Quote, "inline"),
      Rec(<<"B">>, <<CJK>>, <<"e">>, Quote, "multiline"),
      Rec(<<"A">>, <<"m">>, <<"e">>, Quote, "tight"),
      Rec(<<"A", Quote, "x">>, <<"n">>, <<"d">>, Quote, "inline"),
      Rec(<<"B">>, <<"n", Quote, ",", "x">>, <<"d">>, Quote, "inline"),
      Rec(<<"B">>, <<"n">>, <<"d", Quote, "x">>, Quote, "tight"),
      Rec(<<"C">>, <<"n">>, <<"d", Quote, ",", "x">>, Quote, "inline"),
      Rec(<<"B">>, <<"n">>, <<"d">>, DQuote, "inline"),
      Rec(<<"B">>, <<InvalidByte>>, <<"d">>, Quote, "tight") }

Sep(layout) ==
    CASE layout = "inline" -> <<" ">>
      [] layout = "multiline" -> <<"\n", " ">>
      [] OTHER -> <<>>

RecordText(r) ==
    LET sep == Sep(r.layout)
        sp == IF r.layout = "tight" THEN <<>> ELSE <<" ">>
        fld(lit, v) == sep \o lit \o sp \o <<r.q>> \o v \o <<r.q, ",">>
    IN <<"{">> \o fld(KeyLit, r.key) \o fld(NameLit, r.name)
       \o fld(DescLit, r.desc) \o sep \o <<"}", ",", "\n">>

RECURSIVE FileBytes(_)
FileBytes(recs) ==
    IF recs = <<>> THEN <<>>
    ELSE Utf8Encode(RecordText(Head(recs))) \o FileBytes(Tail(recs))

SeqsUpTo(S, n) == UNION { [1..m -> S] : m \in 0..n }

\* ------------------------------------------------------------------------
\* The template mapping (a dict: insertion-ordered, unique keys) and JSON
\* ------------------------------------------------------------------------
NameKeyNoNamespace(key) == key \o <<".name">>

NameKey(key) == <<"clangFormat.option.">> \o key \o <<".name">>

DescriptionKeyAsName(key) == <<"clangFormat.option.">> \o key \o <<".name">>

DescriptionKey(key) == <<"clangFormat.option.">> \o key \o <<".description">>

HasKey(d, k) == \E x \in 1..Len(d) : d[x].k = k

\* a new key is put in front
DictSetPrepend(d, k, v) ==
    IF HasKey(d, k)
    THEN [x \in 1..Len(d) |-> IF d[x].k = k THEN [k |-> k, v |-> v] ELSE d[x]]
    ELSE <<[k |-> k, v |-> v]>> \o d

\* an existing key is removed and appended again
DictSetMoveToEnd(d, k, v) ==
    LET Other(e) == e.k # k
    IN Append(SelectSeq(d, Other), [k |-> k, v |-> v])

\* d[k] = v : an existing key keeps its position and takes the new value,
\* a new key is appended.
DictSet(d, k, v) ==
    IF HasKey(d, k)
    THEN [x \in 1..Len(d) |-> IF d[x].k = k THEN [k |-> k, v |-> v] ELSE d[x]]
    ELSE Append(d, [k |-> k, v |-> v])

RECURSIVE JsonEscape(_)
JsonEscape(str) ==
    IF str = <<>> THEN <<>>
    ELSE (CASE Head(str) = DQuote -> <<"\\", DQuote>>
            [] Head(str) = "\\" -> <<"\\", "\\">>
            [] Head(str) = "\n" -> <<"\\", "n">>
            [] Head(str) = "\t" -> <<"\\", "t">>
            [] OTHER -> <<Head(str)>>)
         \o JsonEscape(Tail(str))

JsonString(str) == <<DQuote>> \o JsonEscape(str) \o <<DQuote>>

RECURSIVE JsonItems(_, _)
JsonItems(d, x) ==
    IF x > Len(d) THEN <<>>
    ELSE <<" ", " ">> \o JsonString(d[x].k) \o <<":", " ">> \o JsonString(d[x].v)
         \o (IF x < Len(d) THEN <<",">> ELSE <<>>) \o <<"\n">>
         \o JsonItems(d, x + 1)

JsonDumpsNoEmptyCase(d) == <<"{", "\n">> \o JsonItems(d, 1) \o <<"}">>

\* json.dumps(d, ensure_ascii=False, indent=2)
JsonDumps(d) ==
    IF d = <<>> THEN <<"{", "}">>
    ELSE <<"{", "\n">> \o JsonItems(d, 1) \o <<"}">>

\* ------------------------------------------------------------------------
\* Standard output: one item per print() call
\* ------------------------------------------------------------------------
Line(kind) == [kind |-> kind, text |-> <<>>, n |-> 0]
TextLine(kind, text) == [kind |-> kind, text |-> text, n |-> 0]
CountLine(n) == [kind |-> "count", text |-> <<>>, n |-> n]

Header(n) ==
    << CountLine(n), Line("rule"), Line("promptTitle"), Line("rule"),
       Line("blank"), Line("instruction1"), Line("instruction2"),
       Line("blank"), Line("exampleTitle"), Line("exampleOpen"),
       Line("exampleName"), Line("exampleDescription"), Line("exampleClose"),
       Line("blank"), Line("pendingTitle"), Line("blank") >>

BlockNoSeparator(m) ==
    << TextLine("key", m[1]), TextLine("name", m[2]),
       TextLine("description", m[3]) >>

Block(m) ==
    << TextLine("key", m[1]), TextLine("name", m[2]),
       TextLine("description", m[3]), Line("blank") >>

TemplateBanner == << Line("newlineRule"), Line("templateTitle"), Line("rule") >>

\* ------------------------------------------------------------------------
\* The run
\* ------------------------------------------------------------------------
VARIABLES
    records,            \* the records the input file was written from
    fs,                 \* file system: path -> [readable, bytes]
    content,            \* text read from the file
    matches,            \* result of re.findall
    translation_data,   \* the template dict, as a sequence of [k, v]
    i,                  \* position of the for loop in matches
    stdout,             \* items printed so far
    pc                  \* next statement

vars == <<records, fs, content, matches, translation_data, i, stdout, pc>>

InitWith(n) ==
    /\ records \in SeqsUpTo(Records, n)
    /\ \/ fs \in { [p \in {InputPath} |->
                      [readable |-> rd, bytes |-> FileBytes(records)]]
                   : rd \in BOOLEAN }
       \/ /\ records = <<>>
          /\ fs = [p \in {} |-> [readable |-> TRUE, bytes |-> <<>>]]
    /\ content = <<>>
    /\ matches = <<>>
    /\ translation_data = <<>>
    /\ i = 1
    /\ stdout = <<>>
    /\ pc = "load"

\* with open(..., 'r', encoding='utf-8') as f: content = f.read()
Load ==
    /\ pc = "load"
    /\ OpenError(fs, InputPath, OpenMode) = "ok"
    /\ fs' = FsAfterOpen(fs, InputPath, OpenMode)
    /\ content' = Utf8Decode(fs[InputPath].bytes)
    /\ pc' = "extract"
    /\ UNCHANGED <<records, matches, translation_data, i, stdout>>

\* the same statement raising: the exception is not caught
LoadFail ==
    /\ pc = "load"
    /\ OpenError(fs, InputPath, OpenMode) # "ok"
    /\ fs' = FsAfterOpen(fs, InputPath, OpenMode)
    /\ pc' = "fatal"
    /\ UNCHANGED <<records, content, matches, translation_data, i, stdout>>

\* matches = re.findall(pattern, content)
Extract ==
    /\ pc = "extract"
    /\ matches' = FindAll(content)
    /\ pc' = "header"
    /\ UNCHANGED <<records, fs, content, translation_data, i, stdout>>

\* the count line and the fixed prompt
ReportHeader ==
    /\ pc = "header"
    /\ stdout' = stdout \o Header(Len(matches))
    /\ pc' = "template"
    /\ UNCHANGED <<records, fs, content, matches, translation_data, i>>

\* translation_data = {}
InitTemplate ==
    /\ pc = "template"
    /\ translation_data' = <<>>
    /\ i' = 1
    /\ pc' = "loop"
    /\ UNCHANGED <<records, fs, content, matches, stdout>>

\* one iteration of: for key, name, description in matches
LoopBody ==
    /\ pc = "loop"
    /\ i <= Len(matches)
    /\ LET key == matches[i][1] IN
       /\ stdout' = stdout \o Block(matches[i])
       /\ translation_data' =
             DictSet(DictSet(translation_data, NameKey(key), <<>>),
                     DescriptionKey(key), <<>>)
    /\ i' = i + 1
    /\ UNCHANGED <<records, fs, content, matches, pc>>

\* the loop is exhausted: banner and json.dumps
ReportTemplate ==
    /\ pc = "loop"
    /\ i > Len(matches)
    /\ stdout' = stdout \o TemplateBanner
                 \o <<TextLine("json", JsonDumps(translation_data))>>
    /\ pc' = "done"
    /\ UNCHANGED <<records, fs, content, matches, translation_data, i>>

Next ==
    \/ Load
    \/ LoadFail
    \/ Extract
    \/ ReportHeader
    \/ InitTemplate
    \/ LoopBody
    \/ ReportTemplate

Init == InitWith(MaxRecords)

InitLive == InitWith(MaxRecordsLive)

Spec == Init /\ [][Next]_vars

\* The interpreter runs the script to its end: no statement waits.
FairSpec == InitLive /\ [][Next]_vars /\ WF_vars(Next)

\* ------------------------------------------------------------------------
\* What a record of the input file should yield, read off the record itself
\* (independently of the pattern matcher)
\* ------------------------------------------------------------------------
HasQuote(f) == \E x \in 1..Len(f) : f[x] = Quote

FirstQuote(f) == Min({ x \in 1..Len(f) : f[x] = Quote })

Max(S) == CHOOSE x \in S : \A y \in S : x >= y

\* three single-quoted fields, none empty, none with an embedded quote
WellFormed(r) ==
    /\ r.q = Quote
    /\ \A f \in {r.key, r.name, r.desc} : f # <<>> /\ ~HasQuote(f)

\* some field has an embedded single quote
EmbeddedQuote(r) ==
    /\ r.q = Quote
    /\ \E f \in {r.key, r.name, r.desc} : HasQuote(f)

\* the only embedded quotes are in the description, and the first of them
\* is directly followed by a comma
TruncatedDesc(r) ==
    /\ r.q = Quote
    /\ r.key # <<>> /\ ~HasQuote(r.key)
    /\ r.name # <<>> /\ ~HasQuote(r.name)
    /\ HasQuote(r.desc)
    /\ LET p == FirstQuote(r.desc)
       IN p > 1 /\ p < Len(r.desc) /\ r.desc[p + 1] = ","

Reading(r) ==
    IF WellFormed(r) THEN << <<r.key, r.name, r.desc>> >>
    ELSE IF TruncatedDesc(r)
         THEN << <<r.key, r.name, SubSeq(r.desc, 1, FirstQuote(r.desc) - 1)>> >>
         ELSE <<>>

StrictReading(r) ==
    IF WellFormed(r) THEN << <<r.key, r.name, r.desc>> >> ELSE <<>>

RECURSIVE Readings(_)
Readings(recs) ==
    IF recs = <<>> THEN <<>> ELSE Reading(Head(recs)) \o Readings(Tail(recs))

RECURSIVE StrictReadings(_)
StrictReadings(recs) ==
    IF recs = <<>> THEN <<>>
    ELSE StrictReading(Head(recs)) \o StrictReadings(Tail(recs))

\* ------------------------------------------------------------------------
\* Observations of the outputs
\* ------------------------------------------------------------------------
IsWellFormed(r) == WellFormed(r)
K == Len(SelectSeq(records, IsWellFormed))
DistinctWellFormedKeys == { records[x].key : x \in { y \in 1..Len(records) : WellFormed(records[y]) } }

CountReported == stdout[1].n
IsKeyLine(o) == o.kind = "key"
IsBlockLine(o) == o.kind \in {"key", "name", "description"}
KeyLines == SelectSeq(stdout, IsKeyLine)
BlockLines == SelectSeq(stdout, IsBlockLine)

TemplateKeys == { translation_data[x].k : x \in 1..Len(translation_data) }
UniqueKeys == Cardinality(TemplateKeys) = Len(translation_data)
KeysOf(ms) ==
    UNION { {NameKey(ms[x][1]), DescriptionKey(ms[x][1])} : x \in 1..Len(ms) }

RECURSIVE BlockTexts(_)
BlockTexts(ms) ==
    IF ms = <<>> THEN <<>>
    ELSE <<Head(ms)[1], Head(ms)[2], Head(ms)[3]>> \o BlockTexts(Tail(ms))

PrintedTexts == [x \in 1..Len(BlockLines) |-> BlockLines[x].text]

\* the outputs are those of a file whose extracted entries are ms
OutputsAreOf(ms) ==
    /\ matches = ms
    /\ CountReported = Len(ms)
    /\ PrintedTexts = BlockTexts(ms)
    /\ TemplateKeys = KeysOf(ms)

\* position of a key in the printed JSON text
PrintedJson == stdout[Len(stdout)].text
Occurrences(k) ==
    { p \in 1..Len(PrintedJson) : LitAt(PrintedJson, p, JsonString(k)) }
PrintedBefore(k1, k2) ==
    /\ Occurrences(k1) # {}
    /\ Occurrences(k2) # {}
    /\ Min(Occurrences(k1)) < Min(Occurrences(k2))
RecordBefore(a, b) ==
    \A k1 \in {NameKey(matches[a][1]), DescriptionKey(matches[a][1])} :
    \A k2 \in {NameKey(matches[b][1]), DescriptionKey(matches[b][1])} :
        PrintedBefore(k1, k2)

\* position of a key in the mapping
PosInTemplate(k) ==
    Min({ x \in 1..Len(translation_data) : translation_data[x].k = k })
FirstOcc(key) == Min({ x \in 1..Len(matches) : matches[x][1] = key })
LastOcc(key) == Max({ x \in 1..Len(matches) : matches[x][1] = key })
MatchedKeys == { matches[x][1] : x \in 1..Len(matches) }

C2_Original ==
    pc = "done" =>
        \A a, b \in 1..Len(matches) : a < b => RecordBefore(a, b)

\* C2 amended: the ordering holds for a < b whenever record b is the first
\* extracted record with its identifier.
C2_FileOrder ==
    pc = "done" =>
        \A a, b \in 1..Len(matches) :
            (a < b /\ \A h \in 1..(b - 1) : matches[h][1] # matches[b][1])
            => RecordBefore(a, b)

C2_Witness ==
    /\ pc = "done"
    /\ Len(matches) = 3
    /\ matches[1][1] # matches[2][1]
    /\ matches[2][1] # matches[3][1]
    /\ matches[1][1] # matches[3][1]

C4_Original ==
    pc = "done" =>
        /\ UniqueKeys
        /\ Len(matches) = Len(Readings(records))
        /\ \A k1, k2 \in MatchedKeys :
              k1 # k2 =>
                 ((PosInTemplate(NameKey(k1)) < PosInTemplate(NameKey(k2)))
                    <=> (LastOcc(k1) < LastOcc(k2)))

\* C4 amended: the template has unique keys, every value is the empty
\* string written last, the match list keeps its duplicates in file order,
\* and the pair of a repeated identifier stays where its FIRST occurrence
\* put it.
C4_DuplicateKeys ==
    pc = "done" =>
        /\ UniqueKeys
        /\ Len(matches) = Len(Readings(records))
        /\ \A x \in 1..Len(matches) : matches[x][1] = Readings(records)[x][1]
        /\ \A k \in MatchedKeys :
              /\ translation_data[PosInTemplate(NameKey(k))].v = <<>>
              /\ PosInTemplate(DescriptionKey(k)) = PosInTemplate(NameKey(k)) + 1
        /\ \A k1, k2 \in MatchedKeys :
              k1 # k2 =>
                 ((PosInTemplate(NameKey(k1)) < PosInTemplate(NameKey(k2)))
                    <=> (FirstOcc(k1) < FirstOcc(k2)))

C4_Witness ==
    /\ pc = "done"
    /\ Len(matches) = 3
    /\ matches[1][1] = matches[3][1]
    /\ matches[1][1] # matches[2][1]
    /\ Len(translation_data) = 4

\* ------------------------------------------------------------------------
\* C5
\* ------------------------------------------------------------------------
\* C5: in every state the template is a flat mapping: each key is
\* "clangFormat.option.<key>.name" or "clangFormat.option.<key>.description"
\* for the key of an entry the loop has already processed, and each value
\* is the empty string.
C5_FlatTemplate ==
    \A x \in 1..Len(translation_data) :
        LET e == translation_data[x] IN
        /\ DOMAIN e = {"k", "v"}
        /\ e.v = <<>>
        /\ Len(e.k) >= 3
        /\ e.k[1] = "clangFormat.option."
        /\ e.k[Len(e.k)] \in {".name", ".description"}
        /\ \E y \in 1..(i - 1) :
              /\ y <= Len(matches)
              /\ SubSeq(e.k, 2, Len(e.k) - 1) = matches[y][1]

C5_Witness ==
    /\ pc = "loop"
    /\ i = 2
    /\ Len(matches) = 3
    /\ Len(translation_data) = 2

\* ------------------------------------------------------------------------
\* C7
\* ------------------------------------------------------------------------
FileOnDisk == InputPath \in DOMAIN fs
HasInvalidByte ==
    FileOnDisk /\ \E x \in 1..Len(fs[InputPath].bytes) :
                      fs[InputPath].bytes[x] = InvalidByte
BadFile == ~FileOnDisk \/ ~fs[InputPath].readable \/ HasInvalidByte

\* a readable file none of whose records is extractable
ZeroRecords == ~BadFile /\ Readings(records) = <<>>

KindsPrinted == { stdout[x].kind : x \in 1..Len(stdout) }

\* C7: a readable file with zero matching records (the empty file
\* included) never ends in the fatal state; the run reaches its end, and
\* there the count line reports 0, no diagnostic block is printed, both
\* banners are printed and the template is rendered as {}.
C7_ZeroMatches ==
    /\ [](ZeroRecords =>
            /\ pc # "fatal"
            /\ pc = "done" =>
                  /\ stdout[1] = CountLine(0)
                  /\ BlockLines = <<>>
                  /\ {"promptTitle", "pendingTitle", "templateTitle"}
                        \subseteq KindsPrinted
                  /\ translation_data = <<>>
                  /\ stdout[Len(stdout)] = TextLine("json", <<"{", "}">>)
                  /\ Len(stdout) = Len(Header(0)) + Len(TemplateBanner) + 1)
    /\ (ZeroRecords ~> pc = "done")

C7_Witness ==
    /\ pc = "done"
    /\ ZeroRecords
    /\ Len(records) = 2
    /\ EmbeddedQuote(records[1])
    /\ records[2].q = DQuote
    /\ stdout[1].n = 0

\* ------------------------------------------------------------------------
\* C8
\* ------------------------------------------------------------------------
IsPrefix(a, b) == Len(a) <= Len(b) /\ SubSeq(b, 1, Len(a)) = a

\* C8: no step changes the file system (neither the input file nor the set
\* of existing files); standard output only grows.
C8_NoFileWrites ==
    [][fs' = fs /\ IsPrefix(stdout, stdout')]_vars

C8_Witness ==
    /\ pc = "done"
    /\ FileOnDisk
    /\ fs[InputPath].bytes = FileBytes(records)
    /\ Len(records) = 2
    /\ Len(stdout) > Len(Header(0))

\* ------------------------------------------------------------------------
\* C9
\* ------------------------------------------------------------------------
\* C9: at the end of a run the output is the count line reporting N and
\* the prompt, then exactly N blocks (identifier, name, description, blank)
\* for the N matches in file order, duplicates included, then the template
\* banner and the template.
C9_Listing ==
    pc = "done" =>
        LET N == Len(matches)
            H == Len(Header(N))
        IN /\ stdout[1] = CountLine(N)
           /\ Len(stdout) = H + 4 * N + Len(TemplateBanner) + 1
           /\ Len(KeyLines) = N
           /\ Len(BlockLines) = 3 * N
           /\ \A x \in 1..N :
                 SubSeq(stdout, H + 4 * (x - 1) + 1, H + 4 * x)
                    = << TextLine("key", matches[x][1]),
                         TextLine("name", matches[x][2]),
                         TextLine("description", matches[x][3]),
                         Line("blank") >>
           /\ matches = Readings(records)
           /\ stdout[H - 1].kind = "pendingTitle"
           /\ stdout[H + 4 * N + 2].kind = "templateTitle"
           /\ stdout[Len(stdout)].kind = "json"

C9_Witness ==
    /\ pc = "done"
    /\ Len(matches) = 3
    /\ Len(KeyLines) = 3
    /\ matches[1][1] = matches[2][1]
    /\ Len(translation_data) < 6

\* ------------------------------------------------------------------------
\* C10
\* ------------------------------------------------------------------------
Rank(p) ==
    CASE p = "load" -> 0
      [] p = "extract" -> 1
      [] p = "header" -> 2
      [] p = "template" -> 3
      [] p = "loop" -> 4
      [] OTHER -> 5

\* C10: a missing, unreadable or undecodable input file ends the run in the
\* fatal state with nothing printed; nothing is printed before the load,
\* the load is never retried and the steps are taken once, in order; a good
\* file always reaches the end of the run.
C10_LoadFirst ==
    /\ [](BadFile => (stdout = <<>> /\ pc \in {"load", "fatal"}))
    /\ [](pc \in {"load", "fatal"} => stdout = <<>>)
    /\ [](pc = "fatal" => BadFile)
    /\ [][pc' # "load" /\ pc # "fatal" /\ pc # "done"
          /\ Rank(pc') >= Rank(pc)]_vars
    /\ (BadFile ~> pc = "fatal")
    /\ (~BadFile ~> pc = "done")

C10_Witness ==
    /\ pc = "fatal"
    /\ HasInvalidByte
    /\ fs[InputPath].readable
    /\ stdout = <<>>

====
